---- MODULE Spec2Model ----
(***************************************************************************)
(* Model of the provisioning configuration stages of the Infrastructure    *)
(* service: host_system (host_system.go), network (network package),       *)
(* parsers (parsers.go).  One caller invokes one stage method at a time;   *)
(* a stage that issues a call to the infrastructure control plane stays in *)
(* flight until the call answers, fails, or its timeout context expires.   *)
(*                                                                         *)
(* Go strings that the code converts (strings.ToLower, strings.ToTitle)    *)
(* are sequences of one-character strings; strings that are only compared  *)
(* or copied are TLA+ strings.  Time is counted in minutes.                *)
(***************************************************************************)
EXTENDS Integers, Sequences, FiniteSets, TLC

VARIABLES
    Database,        \* rows of the virtual machine table (models.Database)
    RequestContext,  \* the caller's provisioning-request context
    elapsed,         \* minutes since the running stage created its TimeoutContext
    budgets,         \* timeout budgets handed to context.WithTimeout so far
    run,             \* the stage call being executed (its frame)
    twin,            \* the same call executed against the table without the
                     \* rows that carry the requested id under another owner
    Router,          \* the gin engine of Server.Run: its root route group
    groups,          \* the route groups Router.Group has created
    routes,          \* the routes registered with the engine
    statement,       \* the next statement of Server.Run
    serving          \* whether httpServer.ListenAndServe has been reached

server == <<Router, groups, routes, statement, serving>>

vars == <<Database, RequestContext, elapsed, budgets, run, twin,
          Router, groups, routes, statement, serving>>

-----------------------------------------------------------------------------
(* strings.ToLower / strings.ToTitle on ASCII letters                       *)

LowerLetters ==
    <<"a","b","c","d","e","f","g","h","i","j","k","l","m",
      "n","o","p","q","r","s","t","u","v","w","x","y","z">>

UpperLetters ==
    <<"A","B","C","D","E","F","G","H","I","J","K","L","M",
      "N","O","P","Q","R","S","T","U","V","W","X","Y","Z">>

LetterIndex(letters, c) ==
    IF \E i \in DOMAIN letters : letters[i] = c
        THEN CHOOSE i \in DOMAIN letters : letters[i] = c
        ELSE 0

ToLowerChar(c) ==
    IF LetterIndex(UpperLetters, c) # 0
        THEN LowerLetters[LetterIndex(UpperLetters, c)]
        ELSE c

ToUpperChar(c) ==
    IF LetterIndex(LowerLetters, c) # 0
        THEN UpperLetters[LetterIndex(LowerLetters, c)]
        ELSE c

ToLower(s) ==
    [i \in DOMAIN s |-> ToLowerChar(s[i])]

\* strings.ToTitle maps every letter to its title case, which for ASCII is
\* its upper case (it is not "capitalise the first letter").
ToTitle(s) ==
    [i \in DOMAIN s |-> ToUpperChar(s[i])]

Contains(list, s) ==
    \E i \in DOMAIN list : list[i] = s

-----------------------------------------------------------------------------
(* Results of a stage call                                                  *)

NoOutcome == [status |-> "none", value |-> "", err |-> ""]

Ok(value) == [status |-> "ok", value |-> value, err |-> ""]

Err(msg) == [status |-> "error", value |-> "", err |-> msg]

Panic(msg) == [status |-> "panic", value |-> "", err |-> msg]

-----------------------------------------------------------------------------
(* The frame of a stage call                                                *)

NoVm == [id |-> "", owner_id |-> "", ItemPath |-> ""]

NoLocals ==
    [Vm |-> NoVm, FindResult |-> "", RetrieveResult |-> "",
     DatastoreRead |-> FALSE, SetupError |-> ""]

\* The arguments of a call other than the distribution name: the fields of
\* VirtualMachineCustomSpec / DatacenterConfig / VirtualMachineIPAddress the
\* method reads; the fields it does not read keep their zero value.
NoRequest ==
    [VirtualMachineId |-> "", VmOwnerId |-> "", CapacityInKB |-> 0,
     ItemPath |-> "", IPv4 |-> "", Netmask |-> "", Gateway |-> "",
     Hostname |-> ""]

Idle ==
    [stage |-> "none", pc |-> "idle", SystemName |-> <<>>, Request |-> NoRequest,
     budget |-> 0, local |-> NoLocals, remoteCalls |-> <<>>,
     outcome |-> NoOutcome]

\* A call that has just been entered: the method name, the distribution name
\* it was given (host system stages) and the rest of its arguments.
Entered(stage, SystemName, Request, budget) ==
    [Idle EXCEPT !.stage = stage, !.pc = "entered", !.SystemName = SystemName,
                 !.Request = Request, !.budget = budget]

\* The frame issues a call to the control plane and waits for it.
Issue(frame, pc, method, argument) ==
    [frame EXCEPT !.pc = pc, !.remoteCalls = Append(@, <<method, argument>>)]

InFlight(frame) ==
    frame.pc \in {"FindDatacenter", "RetrieveDatacenter", "FindVm", "Device",
                  "CreateContainerView"}

-----------------------------------------------------------------------------
(* host_system.go                                                           *)

TimeoutHostSystem == 1

NewHostSystemCredentials(SystemName, Bit) ==
    [SystemName |-> ToLower(SystemName), Bit |-> Bit]

GetHostSystemLocalPath(SystemName) ==
    IF SystemName = <<"u","b","u","n","t","u">> THEN Ok("")
    ELSE IF SystemName = <<"w","i","n","d","o","w","s">> THEN Ok("")
    ELSE Err("Invalid System Name")

LinuxDistributions == << >>

WindowsDistrubitions == << >>

GetDefaultCustomizationOptions(SystemName) ==
    IF Contains(LinuxDistributions, ToLower(SystemName))
        THEN Ok("CustomizationLinuxOptions")
    ELSE IF Contains(WindowsDistrubitions, ToLower(SystemName))
        THEN Ok("CustomizationWinOptions")
    ELSE Err("Invalid Host System Name")

\* The method's return.  GetHostSystemConfig (parsers.go:121-122) calls
\* SetupHostSystem and dereferences the returned pointers before it looks at
\* SetupError: a nil configuration pointer panics there.
Return(frame, result) ==
    IF frame.stage = "GetHostSystemConfig"
        THEN [frame EXCEPT
                !.pc = "done",
                !.local.SetupError = result.err,
                !.outcome = IF result.status = "ok" THEN result
                            ELSE IF result.status = "panic" THEN result
                            ELSE Panic("nil pointer dereference")]
        ELSE [frame EXCEPT !.pc = "done", !.outcome = result]

\* SetupHostSystem up to the point where it returns or waits for
\* VirtualMachine.Device (host_system.go:62-84).
SetupHostSystemDeviceFirst(frame) ==
    Issue(frame, "Device", "Device", "")

SetupHostSystem(frame) ==
    IF GetDefaultCustomizationOptions(frame.SystemName).status # "ok"
        THEN Return(frame, Err("Invalid Operational System Name"))
        ELSE Issue(frame, "Device", "Device", "")

\* host_system.go:84-98, once VirtualMachine.Device has come back.
\* answer is "object" (the call succeeded), "error" or "deadline".
DeviceReturned(frame, answer) ==
    IF answer # "object"
        THEN Return(frame, Err("Failed to Setup HostSystem"))
        ELSE Return(frame, Ok(GetDefaultCustomizationOptions(frame.SystemName).value))

-----------------------------------------------------------------------------
(* network package (VirtualMachineIPAddress, VirtualMachineIPManager,       *)
(* VirtualMachinePrivateNetworkManager)                                     *)

TimeoutPrivateNetwork == 1

F_Options == <<"O","p","t","i","o","n","s">>

F_IPv4 == <<"I","P","v","4">>

F_Netmask == <<"N","e","t","m","a","s","k">>

F_Gateway == <<"G","a","t","e","w","a","y">>

F_Hostname == <<"H","o","s","t","n","a","m","e">>

\* The fields of VirtualMachineIPAddress in declaration order, as
\* reflect's Type.Field(Index).Name enumerates them.
StructFields == <<F_Options, F_IPv4, F_Netmask, F_Gateway, F_Hostname>>

NewVirtualMachineIPAddress(IPv4, Netmask, Gateway, Hostname) ==
    (F_Options :> "") @@ (F_IPv4 :> IPv4) @@ (F_Netmask :> Netmask) @@
    (F_Gateway :> Gateway) @@ (F_Hostname :> Hostname)

\* GetValidationRegexPatterns returns map[string]string{}.
GetValidationRegexPatterns == << >>

\* Indexing a Go map with a key it does not hold yields the zero value "".
PatternFor(Patterns, key) ==
    IF key \in DOMAIN Patterns THEN Patterns[key] ELSE ""

\* regexp.MatchString(pattern, s).  The empty pattern matches every string,
\* the empty string included; the table holds no other pattern.
MatchString(pattern, s) ==
    pattern = ""

\* reflect.Value.String(): the string itself for a string field, a
\* "<T Value>" rendering for a field of any other kind.
FieldString(this, Field) ==
    IF Field = F_Options
        THEN "<types.BaseCustomizationOptions Value>"
        ELSE this[Field]

FieldValueGenerators ==
    (F_Gateway :> "CustomizationCustomIpGenerator") @@
    (F_Netmask :> "CustomizationDhcpIpGenerator") @@
    (F_Hostname :> "CustomizationCustomIpGenerator")

\* The kind reflect.TypeOf(this) reports inside ValidateCredentials: the
\* receiver is *VirtualMachineIPAddress, a pointer.
ReceiverKind == "ptr"

\* reflect.Type.NumField: the field count of a struct type; it panics on a
\* type of any other kind.
NumField(kind) ==
    IF kind = "struct" THEN Ok(Len(StructFields))
    ELSE Panic("reflect: NumField of non-struct type")

\* The first loop of ValidateCredentials (lines 72-78): the names of the
\* fields whose rendering does not match the field's pattern.
InvalidValuesOf(this) ==
    SelectSeq(StructFields,
              LAMBDA Field :
                  ~MatchString(PatternFor(GetValidationRegexPatterns, ToLower(Field)),
                               FieldString(this, Field)))

\* ValidateCredentials (lines 54-88).  The second loop replaces a field only
\* when strings.ToTitle(Field) is a key of the generator table; it then
\* stores a generator object into a string field through a reflect.Value
\* that is not settable, which panics.
ValidateCredentials(this) ==
    IF NumField(ReceiverKind).status = "panic"
        THEN NumField(ReceiverKind)
    ELSE IF \E i \in DOMAIN InvalidValuesOf(this) :
                ToTitle(InvalidValuesOf(this)[i]) \in DOMAIN FieldValueGenerators
        THEN Panic("reflect: reflect.Value.Set using unaddressable value")
    ELSE Ok(this)

\* SetupPublicNetwork (lines 107-132): no error is ever returned.
SetupPublicNetwork(frame) ==
    LET IPCredentials ==
            ValidateCredentials(
                NewVirtualMachineIPAddress(frame.Request.IPv4, frame.Request.Netmask,
                                           frame.Request.Gateway, frame.Request.Hostname))
    IN  IF IPCredentials.status = "panic"
            THEN Return(frame, IPCredentials)
            ELSE Return(frame,
                        Ok([IpAddress |-> IPCredentials.value[F_IPv4],
                            SubnetMask |-> IPCredentials.value[F_Netmask],
                            Gateway |-> <<IPCredentials.value[F_Gateway]>>,
                            HostName |-> IPCredentials.value[F_Hostname]]))

\* SetupPrivateNetwork (lines 145-163) up to Manager.CreateContainerView.
SetupPrivateNetwork(frame) ==
    Issue(frame, "CreateContainerView", "CreateContainerView", "RootFolder")

\* Lines 159-162.  typeAsserted: whether the reference object.NewReference
\* builds has the dynamic type the code asserts (*object.Network); govmomi
\* decides it, and a failed assertion panics.
ContainerViewReturned(frame, answer, typeAsserted) ==
    IF answer # "object"
        THEN Return(frame, Err("Failed to Initialize Private Network"))
    ELSE IF ~typeAsserted
        THEN Return(frame, Panic("interface conversion"))
    ELSE Return(frame, Ok("Network"))

-----------------------------------------------------------------------------
(* The infrastructure control plane and the virtual machine table           *)

NoObject == [Type |-> "", Datastore |-> << >>]

\* The object tree FindByInventoryPath searches: a datacenter, a virtual
\* machine with two datastores, one with none, and a folder.  Any other path,
\* the empty path included, resolves to no object.
Inventory(path) ==
    CASE path = "/dc/main" -> [Type |-> "Datacenter", Datastore |-> << >>]
      [] path = "/vm/a" -> [Type |-> "VirtualMachine", Datastore |-> <<"ds1", "ds2">>]
      [] path = "/vm/b" -> [Type |-> "VirtualMachine", Datastore |-> << >>]
      [] path = "/vm/c" -> [Type |-> "Folder", Datastore |-> << >>]
      [] OTHER -> NoObject

\* What SearchIndex.FindByInventoryPath hands back for an answer of the
\* control plane: a reference, or nil when the path resolves to nothing or
\* the call failed ("error") or ran into the context's deadline ("deadline").
FindByInventoryPath(answer, path) ==
    IF answer = "object" THEN Inventory(path) ELSE NoObject

FindResultOf(answer, path) ==
    IF answer # "object" THEN answer
    ELSE IF Inventory(path) = NoObject THEN "nil"
    ELSE "object"

\* Rows the table may hold.  id is the table's key.
VmRows ==
    { [id |-> "vm1", owner_id |-> "o1", ItemPath |-> "/vm/a"],
      [id |-> "vm1", owner_id |-> "o2", ItemPath |-> "/vm/b"],
      [id |-> "vm2", owner_id |-> "o1", ItemPath |-> "/vm/c"] }

Tables ==
    { rows \in SUBSET VmRows :
        \A r1, r2 \in rows : r1.id = r2.id => r1 = r2 }

-----------------------------------------------------------------------------
(* parsers.go                                                               *)

TimeoutDatacenter == 10

TimeoutStorage == 1

\* Where("id = ? AND owner_id = ?", ...).Find(&Vm): the matching row, or the
\* destination left at its zero value when no row matches.
FindVmByIdOnly(rows, VirtualMachineId, VmOwnerId) ==
    IF \E r \in rows : r.id = VirtualMachineId
        THEN CHOOSE r \in rows : r.id = VirtualMachineId
        ELSE NoVm

FindVm(rows, VirtualMachineId, VmOwnerId) ==
    IF \E r \in rows : r.id = VirtualMachineId /\ r.owner_id = VmOwnerId
        THEN CHOOSE r \in rows : r.id = VirtualMachineId /\ r.owner_id = VmOwnerId
        ELSE NoVm

\* GetDatacenter (lines 57-73) up to Finder.FindByInventoryPath.
GetDatacenter(frame) ==
    Issue(frame, "FindDatacenter", "FindByInventoryPath", frame.Request.ItemPath)

\* Lines 65-67: Datacenter.Reference() is evaluated before FindError is
\* looked at; on a nil Datacenter it panics.
FindDatacenterReturned(frame, answer) ==
    LET found == [frame EXCEPT
                    !.local.FindResult = FindResultOf(answer, frame.Request.ItemPath)]
    IN  IF FindByInventoryPath(answer, frame.Request.ItemPath) = NoObject
            THEN Return(found, Panic("nil pointer dereference"))
            ELSE Issue(found, "RetrieveDatacenter", "RetrieveOne", frame.Request.ItemPath)

\* Lines 67-72, once Collector.RetrieveOne has come back.
RetrieveDatacenterReturned(frame, answer) ==
    LET retrieved == [frame EXCEPT !.local.RetrieveResult = answer]
    IN  IF frame.local.FindResult \in {"error", "deadline"} \/ answer # "object"
            THEN Return(retrieved, Err("Datacenter Does Not Exist"))
            ELSE Return(retrieved, Ok("MoDatacenter"))

\* GetDiskStorageConfig (lines 141-153) up to FindByInventoryPath.
\* GormError: whether the query itself failed.
GetDiskStorageConfig(frame, rows, GormError) ==
    IF GormError
        THEN Return(frame, Err("Gorm.Error"))
        ELSE LET Vm == FindVm(rows, frame.Request.VirtualMachineId,
                              frame.Request.VmOwnerId)
             IN  Issue([frame EXCEPT !.local.Vm = Vm],
                       "FindVm", "FindByInventoryPath", Vm.ItemPath)

\* storage_config.SetupStorageDisk: a disk device configuration of the
\* requested capacity on the given datastore.
SetupStorageDisk(CapacityInKB, Datastore) ==
    Ok([CapacityInKB |-> CapacityInKB, Datastore |-> Datastore])

\* Lines 154-166.  The type assertion of line 154 is evaluated on the
\* reference whatever FindError is, and panics on nil and on an object that
\* is no virtual machine.  typeAsserted: whether the reference
\* object.NewReference builds at line 161 has the dynamic type the code
\* asserts (*mo.VirtualMachine); govmomi decides it, and a failed assertion
\* panics.  Datastore[0] is the first element (index 1 here).
FindVmReturned(frame, answer, typeAsserted) ==
    LET VirtualMachine == FindByInventoryPath(answer, frame.local.Vm.ItemPath)
        found == [frame EXCEPT
                    !.local.FindResult = FindResultOf(answer, frame.local.Vm.ItemPath)]
    IN  IF VirtualMachine = NoObject
            THEN Return(found, Panic("interface conversion: interface is nil"))
        ELSE IF VirtualMachine.Type # "VirtualMachine"
            THEN Return(found, Panic("interface conversion: not *object.VirtualMachine"))
        ELSE IF ~typeAsserted
            THEN Return(found, Panic("interface conversion: not *mo.VirtualMachine"))
        ELSE IF Len(VirtualMachine.Datastore) = 0
            THEN Return([found EXCEPT !.local.DatastoreRead = TRUE],
                        Panic("index out of range [0] with length 0"))
        ELSE Return([found EXCEPT !.local.DatastoreRead = TRUE],
                    SetupStorageDisk(frame.Request.CapacityInKB,
                                     VirtualMachine.Datastore[1]))

-----------------------------------------------------------------------------
(* The callers' inputs                                                      *)

DistributionNames ==
    { <<"u","b","u","n","t","u">>, <<"U","b","u","n","t","u">>,
      <<"W","I","N","D","O","W","S">>, <<"w","i","n","d","o","w","s">>,
      <<"p","l","a","n","9">> }

NetworkRequests ==
    { [NoRequest EXCEPT !.IPv4 = ip, !.Netmask = mask, !.Gateway = gw, !.Hostname = host] :
        ip \in {"", "10.0.0.5"}, mask \in {"", "255.255.255.0"},
        gw \in {"", "10.0.0.1"}, host \in {"", "vm-host"} }

StorageRequests ==
    { [NoRequest EXCEPT !.VirtualMachineId = id, !.VmOwnerId = owner,
                        !.CapacityInKB = 20000] :
        id \in {"vm1", "vm2"}, owner \in {"o1", "o2"} }

DatacenterRequests ==
    { [NoRequest EXCEPT !.ItemPath = path] : path \in {"/dc/main", "/dc/gone"} }

\* The table as it would be without the rows that carry the requested id
\* under an owner other than the requesting one.
WithoutOtherOwners(rows, Request) ==
    { r \in rows : ~(r.id = Request.VirtualMachineId /\ r.owner_id # Request.VmOwnerId) }

-----------------------------------------------------------------------------
(* main.go: Server.Run                                                      *)

\* A path is the sequence of its segments: "/reset/password/" is
\* <<"reset", "password">>, "system/start/" is <<"system", "start">> and the
\* root "/" is << >>.

\* gin's joinPaths(basePath, relativePath).
JoinPaths(basePath, relativePath) ==
    basePath \o relativePath

\* gin's RouterGroup.combineHandlers: the group's handlers as they are at the
\* moment of the call, followed by the given ones.
CombineHandlers(Handlers, handlers) ==
    Handlers \o handlers

Use(handlers) ==
    [op |-> "Use", method |-> "", path |-> << >>, handlers |-> handlers]

Group(path, handlers) ==
    [op |-> "Group", method |-> "", path |-> path, handlers |-> handlers]

Handle(method, path, handler) ==
    [op |-> "Handle", method |-> method, path |-> path, handlers |-> <<handler>>]

\* The statements of Server.Run on Router, in their written order (lines
\* 63-148).  Every route is registered on Router itself; the value of
\* Router.Group(...) and of Router.Group(...).Use(...) is not kept.
RunStatements ==
    << Use(<<"Logger", "Recovery">>),
       Use(<<"cors">>),
       Handle("GET", <<"ping">>, "ping"),
       Group(<<"customer">>, << >>),
       Handle("POST", <<"login">>, "LoginRestController"),
       Handle("POST", <<"logout">>, "LogoutRestController"),
       Handle("POST", <<"create">>, "CreateCustomerRestController"),
       Handle("PUT", <<"reset", "password">>, "ResetPasswordRestController"),
       Handle("DELETE", <<"delete">>, "DeleteCustomerRestController"),
       Handle("GET", <<"get", "profile">>, "GetCustomerProfileRestController"),
       Group(<<"vm">>, <<"JwtAuthenticationMiddleware", "IsVirtualMachineOwnerMiddleware">>),
       Handle("POST", <<"initialize">>, "InitializeVirtualMachineRestController"),
       Handle("PUT", <<"deploy">>, "DeployVirtualMachineRestController"),
       Handle("DELETE", <<"remove">>, "RemoveVirtualMachineRestController"),
       Handle("POST", <<"start">>, "StartVirtualMachineRestController"),
       Handle("POST", <<"reboot">>, "RebootVirtualMachineRestController"),
       Handle("DELETE", <<"shutdown">>, "ShutdownVirtualMachineRestController"),
       Use(<<"IsVirtualMachineOwnerMiddleware">>),
       Handle("GET", <<"get", "list">>, "GetCustomerVirtualMachine"),
       Handle("GET", <<"get">>, "GetCustomerVirtualMachines"),
       Use(<<"IsVirtualMachineOwnerMiddleware">>),
       Handle("GET", <<"health", "metrics">>, "GetVirtualMachineHealthMetricRestController"),
       Group(<<"host">>, <<"IsVirtualMachineOwnerMiddleware">>),
       Handle("POST", <<"system", "start">>, "StartGuestOSRestController"),
       Handle("PUT", <<"system", "restart">>, "RebootGuestOSRestController"),
       Handle("DELETE", <<"system", "shutdown">>, "ShutdownGuestOsRestController"),
       Group(<<"suggestions">>, << >>),
       Use(<<"JwtAuthenticationMiddleware">>),
       Handle("POST", <<"datacenter">>, "GetDatacenterSuggestions"),
       Group(<<"support">>, << >>),
       Use(<<"JwtAuthenticationMiddleware">>),
       Handle("POST", <<"feedback">>, "SupportRestController") >>

Registering(op) ==
    /\ ~serving
    /\ statement <= Len(RunStatements)
    /\ RunStatements[statement].op = op
    /\ statement' = statement + 1
    /\ UNCHANGED <<Database, RequestContext, elapsed, budgets, run, twin, serving>>

\* Router.Use(middleware...): appended to the handlers of the root group.
RouterUse ==
    /\ Registering("Use")
    /\ Router' = [Router EXCEPT
                    !.Handlers = @ \o RunStatements[statement].handlers]
    /\ UNCHANGED <<groups, routes>>

\* Router.Group(path) and Router.Group(path).Use(middleware...): a new group
\* that starts from a copy of Router's handlers; Router is not changed.
RouterGroup ==
    /\ Registering("Group")
    /\ groups' = Append(groups,
                    [basePath |-> JoinPaths(Router.basePath, RunStatements[statement].path),
                     Handlers |-> CombineHandlers(Router.Handlers,
                                                  RunStatements[statement].handlers)])
    /\ UNCHANGED <<Router, routes>>

\* Router.GET / POST / PUT / DELETE(path, controller): the route gets the
\* chain combineHandlers builds at this moment.
RouterHandle ==
    /\ Registering("Handle")
    /\ routes' = routes \cup
                    {[method |-> RunStatements[statement].method,
                      path |-> JoinPaths(Router.basePath, RunStatements[statement].path),
                      handlers |-> CombineHandlers(Router.Handlers,
                                                   RunStatements[statement].handlers)]}
    /\ UNCHANGED <<Router, groups>>

\* httpServer.ListenAndServe() (line 155): requests are served from here on.
ListenAndServe ==
    /\ ~serving
    /\ statement > Len(RunStatements)
    /\ serving' = TRUE
    /\ UNCHANGED <<Database, RequestContext, elapsed, budgets, run, twin,
                   Router, groups, routes, statement>>

-----------------------------------------------------------------------------
(* Actions                                                                  *)

\* A caller (a REST controller of the running server) enters a stage method.  A method that calls context.WithTimeout
\* derives its TimeoutContext from context.Background(), not from the
\* caller's context.
Enter(stage, budget) ==
    /\ serving
    /\ run.pc = "idle"
    /\ RequestContext' = "active"
    /\ elapsed' = 0
    /\ budgets' = IF budget > 0 THEN budgets \cup {<<stage, budget>>} ELSE budgets
    /\ UNCHANGED <<Database, server>>

CallGetDefaultCustomizationOptions ==
    \E SystemName \in DistributionNames :
        /\ Enter("GetDefaultCustomizationOptions", 0)
        /\ run' = Return(Entered("GetDefaultCustomizationOptions", SystemName, NoRequest, 0),
                         GetDefaultCustomizationOptions(SystemName))
        /\ twin' = run'

CallSetupHostSystem ==
    \E SystemName \in DistributionNames :
        /\ Enter("SetupHostSystem", TimeoutHostSystem)
        /\ run' = SetupHostSystem(
                      Entered("SetupHostSystem", SystemName, NoRequest, TimeoutHostSystem))
        /\ twin' = run'

CallGetHostSystemConfig ==
    \E DistributionName \in DistributionNames :
        /\ Enter("SetupHostSystem", TimeoutHostSystem)
        /\ run' = SetupHostSystem(
                      Entered("GetHostSystemConfig",
                              NewHostSystemCredentials(DistributionName, 64).SystemName,
                              NoRequest, TimeoutHostSystem))
        /\ twin' = run'

CallSetupPublicNetwork ==
    \E Request \in NetworkRequests :
        /\ Enter("SetupPublicNetwork", 0)
        /\ run' = SetupPublicNetwork(Entered("SetupPublicNetwork", <<>>, Request, 0))
        /\ twin' = run'

CallSetupPrivateNetwork ==
    \E Request \in NetworkRequests :
        /\ Enter("SetupPrivateNetwork", TimeoutPrivateNetwork)
        /\ run' = SetupPrivateNetwork(
                      Entered("SetupPrivateNetwork", <<>>, Request, TimeoutPrivateNetwork))
        /\ twin' = run'

CallGetDatacenter ==
    \E Request \in DatacenterRequests :
        /\ Enter("GetDatacenter", TimeoutDatacenter)
        /\ run' = GetDatacenter(Entered("GetDatacenter", <<>>, Request, TimeoutDatacenter))
        /\ twin' = run'

CallGetDiskStorageConfig ==
    \E Request \in StorageRequests, GormError \in BOOLEAN :
        /\ Enter("GetDiskStorageConfig", TimeoutStorage)
        /\ run' = GetDiskStorageConfig(
                      Entered("GetDiskStorageConfig", <<>>, Request, TimeoutStorage),
                      Database, GormError)
        /\ twin' = GetDiskStorageConfig(
                      Entered("GetDiskStorageConfig", <<>>, Request, TimeoutStorage),
                      WithoutOtherOwners(Database, Request), GormError)

\* The code that runs when the call in flight comes back.
Resumed(frame, answer, typeAsserted) ==
    CASE frame.pc = "FindDatacenter" -> FindDatacenterReturned(frame, answer)
      [] frame.pc = "RetrieveDatacenter" -> RetrieveDatacenterReturned(frame, answer)
      [] frame.pc = "FindVm" -> FindVmReturned(frame, answer, typeAsserted)
      [] frame.pc = "Device" -> DeviceReturned(frame, answer)
      [] frame.pc = "CreateContainerView" ->
            ContainerViewReturned(frame, answer, typeAsserted)
      [] OTHER -> frame

\* The control plane answers the call in flight, or the call fails, before
\* the TimeoutContext expires.
RemoteReturns ==
    \E answer \in {"object", "error"}, typeAsserted \in BOOLEAN :
        /\ InFlight(run)
        /\ elapsed < run.budget
        /\ run' = Resumed(run, answer, typeAsserted)
        /\ twin' = Resumed(twin, answer, typeAsserted)
        /\ UNCHANGED <<Database, RequestContext, elapsed, budgets, server>>

\* The TimeoutContext expires under the call in flight.
DeadlineExceeded ==
    /\ InFlight(run)
    /\ elapsed >= run.budget
    /\ run' = Resumed(run, "deadline", FALSE)
    /\ twin' = Resumed(twin, "deadline", FALSE)
    /\ UNCHANGED <<Database, RequestContext, elapsed, budgets, server>>

\* A minute passes while a call is in flight.
Tick ==
    /\ InFlight(run)
    /\ elapsed < run.budget
    /\ elapsed' = elapsed + 1
    /\ UNCHANGED <<Database, RequestContext, budgets, run, twin, server>>

\* The caller's request context is canceled while a call is in flight.
CancelRequest ==
    /\ InFlight(run)
    /\ RequestContext = "active"
    /\ RequestContext' = "canceled"
    /\ UNCHANGED <<Database, elapsed, budgets, run, twin, server>>

\* The caller takes the result.
Finish ==
    /\ run.pc = "done"
    /\ run' = Idle
    /\ twin' = Idle
    /\ RequestContext' = "active"
    /\ elapsed' = 0
    /\ UNCHANGED <<Database, budgets, server>>

Init ==
    /\ Database \in Tables
    /\ RequestContext = "active"
    /\ elapsed = 0
    /\ budgets = {}
    /\ run = Idle
    /\ twin = Idle
    /\ Router = [basePath |-> << >>, Handlers |-> << >>]
    /\ groups = << >>
    /\ routes = {}
    /\ statement = 1
    /\ serving = FALSE

Next ==
    \/ RouterUse
    \/ RouterGroup
    \/ RouterHandle
    \/ ListenAndServe
    \/ CallGetDefaultCustomizationOptions
    \/ CallSetupHostSystem
    \/ CallGetHostSystemConfig
    \/ CallSetupPublicNetwork
    \/ CallSetupPrivateNetwork
    \/ CallGetDatacenter
    \/ CallGetDiskStorageConfig
    \/ RemoteReturns
    \/ DeadlineExceeded
    \/ Tick
    \/ CancelRequest
    \/ Finish

Spec == Init /\ [][Next]_vars

-----------------------------------------------------------------------------
(* Properties                                                               *)

Done(stage) ==
    run.stage = stage /\ run.pc = "done"

Unsupported(SystemName) ==
    /\ ~Contains(LinuxDistributions, ToLower(SystemName))
    /\ ~Contains(WindowsDistrubitions, ToLower(SystemName))

\* C1: GetDefaultCustomizationOptions returns the Linux variant exactly for
\* the names of the Linux distribution set, the Windows variant exactly for
\* the names of the Windows distribution set and an error for every other
\* name, and every name the host system manager supports (it gives "ubuntu"
\* and "windows" a local path) yields its variant.
C1_DeriveOptionsTotal ==
    Done("GetDefaultCustomizationOptions") =>
        /\ run.outcome = Ok("CustomizationLinuxOptions")
              <=> Contains(LinuxDistributions, ToLower(run.SystemName))
        /\ run.outcome = Ok("CustomizationWinOptions")
              <=> Contains(WindowsDistrubitions, ToLower(run.SystemName))
        /\ Unsupported(run.SystemName) => run.outcome.status = "error"
        /\ GetHostSystemLocalPath(ToLower(run.SystemName)).status = "ok"
              => run.outcome.status = "ok"

\* The identity fields of a network request that are empty.
EmptyFields(Request) ==
    {F \in {F_IPv4, F_Netmask, F_Gateway, F_Hostname} :
        NewVirtualMachineIPAddress(Request.IPv4, Request.Netmask,
                                   Request.Gateway, Request.Hostname)[F] = ""}

\* Those of them the generator table has no entry for.
EmptyWithoutGenerator(Request) ==
    EmptyFields(Request) \ DOMAIN FieldValueGenerators

\* C2: when SetupPublicNetwork returns success no identity field of the
\* result is empty, and a request whose empty fields all have a declared
\* generator does get such a result: every empty field is replaced by a
\* generated value.
C2_NoEmptyFieldAfterSuccess ==
    Done("SetupPublicNetwork") =>
        /\ run.outcome.status = "ok" =>
              /\ run.outcome.value.IpAddress # ""
              /\ run.outcome.value.SubnetMask # ""
              /\ run.outcome.value.Gateway # <<"">>
              /\ run.outcome.value.HostName # ""
        /\ (EmptyFields(run.Request) # {} /\ EmptyWithoutGenerator(run.Request) = {})
              => run.outcome.status = "ok"

\* C3: when identity fields fail validation and have no generator,
\* SetupPublicNetwork fails with a validation error that lists exactly those
\* fields.
C3_ValidationErrorListsAllFields ==
    (Done("SetupPublicNetwork") /\ EmptyWithoutGenerator(run.Request) # {}) =>
        /\ run.outcome.status = "error"
        /\ run.outcome.value = EmptyWithoutGenerator(run.Request)

OwnRows(Request) ==
    {r \in Database : r.id = Request.VirtualMachineId /\ r.owner_id = Request.VmOwnerId}

\* C4: when the table holds no row with the requested id and owner,
\* GetDiskStorageConfig returns an error and issues no lookup on the control
\* plane.
C4_NotFoundWithoutRemoteLookup ==
    (run.stage = "GetDiskStorageConfig" /\ OwnRows(run.Request) = {}) =>
        /\ run.remoteCalls = << >>
        /\ run.pc = "done"
        /\ run.outcome.status = "error"

\* C5: once GetDiskStorageConfig has read the datastore list of the virtual
\* machine, it returns an error if the list is empty, and whenever it returns
\* a disk configuration the list is not empty and the configuration is bound
\* to its first entry.
C5_EmptyDatastoreListFailsExplicitly ==
    (Done("GetDiskStorageConfig") /\ run.local.DatastoreRead) =>
        /\ Len(Inventory(run.local.Vm.ItemPath).Datastore) = 0
              => run.outcome.status = "error"
        /\ run.outcome.status = "ok" =>
              /\ Len(Inventory(run.local.Vm.ItemPath).Datastore) >= 1
              /\ run.outcome.value.Datastore = Inventory(run.local.Vm.ItemPath).Datastore[1]

\* C6: GetDatacenter returns an error value for every failure of its remote
\* lookup, a not-found error when the path resolves to no object and a
\* different, timeout error when the call ran into its deadline.
C6_LookupFailuresAreTypedErrors ==
    Done("GetDatacenter") =>
        /\ run.local.FindResult \in {"nil", "error", "deadline"}
              => run.outcome.status = "error"
        /\ run.local.FindResult = "nil"
              => run.outcome.err = "Datacenter Does Not Exist"
        /\ (run.local.FindResult = "deadline" \/ run.local.RetrieveResult = "deadline")
              => /\ run.outcome.status = "error"
                 /\ run.outcome.err # "Datacenter Does Not Exist"

\* C7: for a distribution name in neither distribution set SetupHostSystem
\* has returned the unsupported-system error without a single call to the
\* control plane having been issued.
C7_UnsupportedFailsBeforeRemoteCall ==
    (run.stage \in {"SetupHostSystem", "GetHostSystemConfig"}
        /\ Unsupported(run.SystemName)) =>
        /\ run.remoteCalls = << >>
        /\ run.pc = "done"
        /\ run.stage = "SetupHostSystem"
              => run.outcome = Err("Invalid Operational System Name")
        /\ run.stage = "GetHostSystemConfig"
              => run.local.SetupError = "Invalid Operational System Name"

\* C7 witness: SetupHostSystem was called with "plan9" and has returned the
\* error, no remote call issued.
C7_Witness ==
    /\ Done("SetupHostSystem")
    /\ run.SystemName = <<"p","l","a","n","9">>
    /\ run.outcome = Err("Invalid Operational System Name")
    /\ run.remoteCalls = << >>

\* C8: GetDiskStorageConfig issues the same remote calls and returns the
\* same result as it does on the table without the rows that carry the
\* requested id under another owner.
C8_OtherOwnersRowInvisible ==
    run.stage = "GetDiskStorageConfig" =>
        /\ run.remoteCalls = twin.remoteCalls
        /\ run.pc = twin.pc
        /\ run.outcome.status = twin.outcome.status
        /\ run.outcome.err = twin.outcome.err
        /\ run.outcome.value = twin.outcome.value

\* C8 witness: a finished call whose id exists in the table only under
\* another owner, after its one lookup on the control plane.
C8_Witness ==
    /\ Done("GetDiskStorageConfig")
    /\ OwnRows(run.Request) = {}
    /\ \E r \in Database : r.id = run.Request.VirtualMachineId
    /\ Len(run.remoteCalls) = 1

\* C9: once the caller's request context is canceled while a remote-bound
\* stage has a call in flight, the next thing the stage does is return a
\* cancellation error: the call does not go on running towards its own
\* timeout.
C9_CancellationObserved ==
    [][(run.stage \in {"GetDatacenter", "GetDiskStorageConfig"} /\ InFlight(run)
            /\ RequestContext = "canceled")
        => (run'.pc = "done" /\ run'.outcome = Err("context canceled"))]_vars

\* C10: all remote-bound stages hand the same budget to context.WithTimeout.
C10_UniformTimeoutBudget ==
    \A a, b \in budgets : a[2] = b[2]

\* C11: for a network request whose four identity fields are all populated,
\* SetupPublicNetwork succeeds and the customization carries the four values
\* unchanged: fixed IP = IPv4, subnet mask = Netmask, gateway list =
\* <<Gateway>>, fixed hostname = Hostname (no generator has replaced one).
C11_PopulatedFieldsUnchanged ==
    (Done("SetupPublicNetwork") /\ EmptyFields(run.Request) = {}) =>
        /\ run.outcome.status = "ok"
        /\ run.outcome.value.IpAddress = run.Request.IPv4
        /\ run.outcome.value.SubnetMask = run.Request.Netmask
        /\ run.outcome.value.Gateway = <<run.Request.Gateway>>
        /\ run.outcome.value.HostName = run.Request.Hostname

\* The virtual machine lifecycle routes.
LifecycleRoutes ==
    { <<"POST", <<"initialize">>>>, <<"PUT", <<"deploy">>>>,
      <<"DELETE", <<"remove">>>>, <<"POST", <<"start">>>>,
      <<"POST", <<"reboot">>>>, <<"DELETE", <<"shutdown">>>> }

\* C12: once Server.Run has registered all its routes, every virtual machine
\* lifecycle route is registered with a handler chain that holds both the
\* JWT authentication middleware and the VM owner middleware.
C12_LifecycleRoutesGuarded ==
    statement > Len(RunStatements) =>
        \A lifecycle \in LifecycleRoutes :
            \E route \in routes :
                /\ route.method = lifecycle[1]
                /\ route.path = lifecycle[2]
                /\ Contains(route.handlers, "JwtAuthenticationMiddleware")
                /\ Contains(route.handlers, "IsVirtualMachineOwnerMiddleware")

====
